---- MODULE Spec2Model ----
(***************************************************************************)
(* Model of the power-di container (src/index.js, src/util.js).            *)
(*                                                                         *)
(* Strings are sequences of one-character strings, so that prefixing,      *)
(* startsWith, kebabCase and the '-' -> '.' replacement are computed on    *)
(* characters.  The only multi-character element is CT, which stands for   *)
(* the 12 characters "constructor(" inside a class's source text.          *)
(*                                                                         *)
(* JavaScript values are records tagged by the field t.  Dependency names  *)
(* are ordinary identifiers / module names; names that collide with the    *)
(* properties every JavaScript object inherits (constructor, valueOf, ...) *)
(* are outside the inputs of this model, and so are empty depName strings. *)
(* The debug sink is absent (config.debug is false), so _debug is a no-op. *)
(***************************************************************************)
EXTENDS Integers, Sequences, FiniteSets, TLC

\* ------------------------------------------------------------ JS values
Undef == [t |-> "undefined"]
Null == [t |-> "null"]
Bool(b) == [t |-> "boolean", b |-> b]
Num(n) == [t |-> "number", n |-> n]
Str(s) == [t |-> "string", s |-> s]
Arr(xs) == [t |-> "array", xs |-> xs]
\* an object created while the container runs (new, or a factory's fresh object)
Obj(id) == [t |-> "object", id |-> id]
\* an object written by the user (a constant such as {squeeze: true})
UObj(k) == [t |-> "object", id |-> 0 - k]
\* a function or class written by the user
Fn(id) == [t |-> "function", id |-> id]
\* what require(name) returns
Mod(name) == [t |-> "module", name |-> name]
\* the container object itself (the `this` of every method)
This == [t |-> "container"]

\* JavaScript truthiness (the conditions of if, && and ||)
Truthy(v) ==
  CASE v.t = "undefined" -> FALSE
    [] v.t = "null" -> FALSE
    [] v.t = "boolean" -> v.b
    [] v.t = "number" -> v.n # 0
    [] v.t = "string" -> v.s # <<>>
    [] OTHER -> TRUE

\* the characters of String(v) for the values that get concatenated to a prefix
ToChars(v) ==
  CASE v.t = "string" -> v.s
    [] v.t = "undefined" -> <<"u", "n", "d", "e", "f", "i", "n", "e", "d">>
    [] v.t = "null" -> <<"n", "u", "l", "l">>
    [] OTHER -> <<"?">>

\* -------------------------------------------------------------- strings
UpperOrDigit ==
  {"A", "B", "C", "D", "E", "F", "G", "H", "I", "J", "K", "L", "M",
   "N", "O", "P", "Q", "R", "S", "T", "U", "V", "W", "X", "Y", "Z",
   "0", "1", "2", "3", "4", "5", "6", "7", "8", "9"}

toLowerCaseChar(c) ==
  CASE c = "A" -> "a" [] c = "B" -> "b" [] c = "C" -> "c" [] c = "D" -> "d"
    [] c = "E" -> "e" [] c = "F" -> "f" [] c = "G" -> "g" [] c = "H" -> "h"
    [] c = "I" -> "i" [] c = "J" -> "j" [] c = "K" -> "k" [] c = "L" -> "l"
    [] c = "M" -> "m" [] c = "N" -> "n" [] c = "O" -> "o" [] c = "P" -> "p"
    [] c = "Q" -> "q" [] c = "R" -> "r" [] c = "S" -> "s" [] c = "T" -> "t"
    [] c = "U" -> "u" [] c = "V" -> "v" [] c = "W" -> "w" [] c = "X" -> "x"
    [] c = "Y" -> "y" [] c = "Z" -> "z"
    [] OTHER -> c

toLowerCase(s) == [i \in 1..Len(s) |-> toLowerCaseChar(s[i])]

startsWith(s, p) == Len(p) <= Len(s) /\ SubSeq(s, 1, Len(p)) = p

\* faulty variant: every run ends at once, as with /[A-Z0-9]/g
RunEndAtOnce(s, i) == i

\* the end of the maximal run of [A-Z0-9] that starts at position i
RECURSIVE RunEnd(_, _)
RunEnd(s, i) ==
  IF i < Len(s) /\ s[i + 1] \in UpperOrDigit THEN RunEnd(s, i + 1) ELSE i

RECURSIVE kebabCaseFrom(_, _)
kebabCaseFrom(s, i) ==
  IF i > Len(s) THEN <<>>
  ELSE IF s[i] \in UpperOrDigit
       THEN LET j == RunEnd(s, i)
            IN <<"-">> \o toLowerCase(SubSeq(s, i, j)) \o kebabCaseFrom(s, j + 1)
       ELSE <<s[i]>> \o kebabCaseFrom(s, i + 1)

\* str.replace(/[A-Z0-9]+/g, match => '-' + match.toLowerCase())
kebabCase(s) == kebabCaseFrom(s, 1)

\* dashName.replace(new RegExp('-', 'g'), '.')
DotName(s) == [i \in 1..Len(s) |-> IF s[i] = "-" THEN "." ELSE s[i]]

\* ------------------------------------------------- Util.getFunctionArgs
CT == "constructor("
NL == "\n"

\* /constructor\((.+)\)/i matches from the CT at i up to the ')' at j: at least
\* one character in between, and none of them a line break
MatchAt(text, i, j) ==
  /\ text[i] = CT
  /\ j > i + 1
  /\ j <= Len(text)
  /\ text[j] = ")"
  /\ \A k \in (i + 1)..(j - 1) : text[k] # NL

MatchStarts(text) == {i \in 1..Len(text) : \E j \in 1..Len(text) : MatchAt(text, i, j)}

Min(S) == CHOOSE x \in S : \A y \in S : x <= y
Max(S) == CHOOSE x \in S : \A y \in S : x >= y

\* the capture group: leftmost match, and .+ is greedy
Capture(text) ==
  LET i == Min(MatchStarts(text))
      j == Max({k \in 1..Len(text) : MatchAt(text, i, k)})
  IN SubSeq(text, i + 1, j - 1)

RECURSIVE split(_, _)
split(s, sep) ==
  IF \A i \in 1..Len(s) : s[i] # sep THEN <<s>>
  ELSE LET i == Min({k \in 1..Len(s) : s[k] = sep})
       IN <<SubSeq(s, 1, i - 1)>> \o split(SubSeq(s, i + 1, Len(s)), sep)

WhiteSpace == {" ", NL}

RECURSIVE trim(_)
trim(s) ==
  IF s = <<>> THEN s
  ELSE IF s[1] \in WhiteSpace THEN trim(Tail(s))
  ELSE IF s[Len(s)] \in WhiteSpace THEN trim(SubSeq(s, 1, Len(s) - 1))
  ELSE s

\* the array of trimmed parameter names, or null when the pattern finds nothing
getFunctionArgs(text) ==
  IF MatchStarts(text) = {} THEN Null
  ELSE LET parts == split(Capture(text), ",")
       IN Arr([i \in 1..Len(parts) |-> trim(parts[i])])

\* ------------------------------------------------------------- state
VARIABLES
  config,     \* this.config, fixed by the constructor
  modules,    \* the names require.resolve() can resolve (the installed packages)
  container,  \* this.container: registered name -> definition object
  nextId,     \* identity of the next object that `new` or a factory creates
  returned,   \* history: name -> the values successful get(name) calls returned
  last        \* the last call on the container: operation, arguments, outcome, trace

vars == <<config, modules, container, nextId, returned, last>>

\* -------------------------------------------------------- bounds
\* objects one container creates in the runs explored: the applications of
\* Resolution, External, Registration and Scanning, and the one of Graph
MaxObjs == 3
MaxGraphObjs == 5
MaxDepth == 4
\* length of the names handed to kebabCase
MaxLen == 3

\* ------------------------------------------------------- definitions
\* a definition object; a property the code never set reads as undefined
NoDef ==
  [constant |-> Undef, function |-> Undef, factory |-> Undef, args |-> Undef,
   file |-> Undef, isClass |-> Undef, isSingleton |-> Undef, isConstant |-> Undef,
   isFunction |-> Undef, isFactory |-> Undef, instance |-> Undef]

ConstantDef(v) == [NoDef EXCEPT !.constant = v, !.isConstant = Bool(TRUE)]
FunctionDef(f) == [NoDef EXCEPT !.function = f, !.isFunction = Bool(TRUE)]
FactoryDef(f) == [NoDef EXCEPT !.factory = f, !.isFactory = Bool(TRUE)]
ClassDef(args, file, isSingleton) ==
  [NoDef EXCEPT !.args = args, !.file = file, !.isClass = Bool(TRUE),
                !.isSingleton = Bool(isSingleton)]

Err(msg, arg) == [t |-> "error", msg |-> msg, arg |-> arg]
Return(st, v) == [st |-> st, k |-> "return", v |-> v]
Throw(st, e) == [st |-> st, k |-> "throw", v |-> e]
Logged(st, ev) == [st EXCEPT !.log = Append(@, ev)]

\* the state a call works on: the registry, the object counter, the trace of
\* the call, and the seenClasses array of the running get
StateOf(c, n) == [container |-> c, nextId |-> n, log |-> <<>>, seen |-> <<>>]

\* this.container[depName] != null: a registered entry is an object, never null
has(c, depName) == depName \in DOMAIN c

\* ------------------------------------------------------- _getNodeModule
\* util.nodeModuleExists(name): require.resolve(name) does not throw
nodeModuleExists(name) == name \in modules

Exists(st, name) == Logged(st, [e |-> "exists", name |-> name])
Require(st, name) == Return(Logged(st, [e |-> "require", name |-> name]), Mod(name))

\* faulty variant: the dotted name is tried before the dashed one
getNodeModuleDotFirst(st, depName) ==
  LET dashName == kebabCase(depName)
      dotName == DotName(dashName)
      s1 == Exists(st, depName)
      s2 == Exists(s1, dotName)
      s3 == Exists(s2, dashName)
  IN IF nodeModuleExists(depName) THEN Require(s1, depName)
     ELSE IF nodeModuleExists(dotName) THEN Require(s2, dotName)
     ELSE IF nodeModuleExists(dashName) THEN Require(s3, dashName)
     ELSE Throw(s3, Err("Container could not find NPM module: ", depName))

\* faulty variant: a module found by the fallback is kept in the registry
getNodeModuleRegistering(st, depName) ==
  LET dashName == kebabCase(depName)
      dotName == DotName(dashName)
      s1 == Exists(st, depName)
      s2 == Exists(s1, dashName)
      s3 == Exists(s2, dotName)
      Keep(r) == [r EXCEPT !.st.container =
                    [n \in DOMAIN @ \cup {depName} |->
                       IF n = depName THEN ConstantDef(r.v) ELSE @[n]]]
  IN IF nodeModuleExists(depName) THEN Keep(Require(s1, depName))
     ELSE IF nodeModuleExists(dashName) THEN Keep(Require(s2, dashName))
     ELSE IF nodeModuleExists(dotName) THEN Keep(Require(s3, dotName))
     ELSE Throw(s3, Err("Container could not find NPM module: ", depName))

\* faulty variant: a name that no module answers to is remembered as such
getNodeModuleRemembering(st, depName) ==
  LET dashName == kebabCase(depName)
      dotName == DotName(dashName)
      s1 == Exists(st, depName)
      s2 == Exists(s1, dashName)
      s3 == Exists(s2, dotName)
      Failed(s) == [s EXCEPT !.container =
                      [n \in DOMAIN @ \cup {depName} |->
                         IF n = depName THEN ConstantDef(Undef) ELSE @[n]]]
  IN IF nodeModuleExists(depName) THEN Require(s1, depName)
     ELSE IF nodeModuleExists(dashName) THEN Require(s2, dashName)
     ELSE IF nodeModuleExists(dotName) THEN Require(s3, dotName)
     ELSE Throw(Failed(s3), Err("Container could not find NPM module: ", depName))

getNodeModule(st, depName) ==
  LET dashName == kebabCase(depName)
      dotName == DotName(dashName)
      s1 == Exists(st, depName)
      s2 == Exists(s1, dashName)
      s3 == Exists(s2, dotName)
  IN IF nodeModuleExists(depName) THEN Require(s1, depName)
     ELSE IF nodeModuleExists(dashName) THEN Require(s2, dashName)
     ELSE IF nodeModuleExists(dotName) THEN Require(s3, dotName)
     ELSE Throw(s3, Err("Container could not find NPM module: ", depName))

\* ----------------------------------------------------------- user code
\* The functions the user hands to the container, by identity.  A factory
\* either returns a fresh object, or (README, car-factory.js) builds an object
\* around container.get(dep).
FreshFactory == Fn(1)
WireFactory == Fn(2)
PlainFunction == Fn(3)
WireDep == <<"B">>

\* ------------------------------------------------------------------ get
RECURSIVE get(_, _, _)
RECURSIVE ResolveArgs(_, _, _, _, _)
RECURSIVE CallFactory(_, _, _)

\* faulty variant: the factory is called without the container
CallFactoryNoArgument(st, f, fuel) ==
  LET s1 == Logged(st, [e |-> "call", fn |-> f, args |-> <<>>, d |-> MaxDepth - fuel])
  IN Return([Logged(s1, [e |-> "called", fn |-> f, v |-> Obj(s1.nextId),
                         d |-> MaxDepth - fuel])
               EXCEPT !.nextId = @ + 1],
            Obj(s1.nextId))

\* (dependency.factory)(this)
CallFactory(st, f, fuel) ==
  LET s1 == Logged(st, [e |-> "call", fn |-> f, args |-> <<This>>,
                        d |-> MaxDepth - fuel])
      Made(s) == Return([Logged(s, [e |-> "called", fn |-> f, v |-> Obj(s.nextId),
                                    d |-> MaxDepth - fuel])
                           EXCEPT !.nextId = @ + 1],
                        Obj(s.nextId))
  IN IF f.t # "function" THEN Throw(st, Err("TypeError", <<>>))
     ELSE IF f = WireFactory
     THEN LET r == get([s1 EXCEPT !.seen = <<>>], WireDep, fuel - 1)
              s2 == [r.st EXCEPT !.seen = st.seen]
          IN IF r.k = "throw" THEN Throw(s2, r.v) ELSE Made(s2)
     ELSE Made(s1)

\* faulty variant: every parameter is resolved twice before the next one
ResolveArgsTwice(st, names, i, acc, fuel) ==
  IF i > Len(names) THEN Return(st, acc)
  ELSE LET r0 == get(st, names[i], fuel - 1)
           r == IF r0.k = "throw" THEN r0 ELSE get(r0.st, names[i], fuel - 1)
       IN IF r.k = "throw" THEN r
          ELSE ResolveArgs(r.st, names, i + 1, Append(acc, r.v), fuel)

\* for (let arg of dependency.args) args.push(this.get(arg, seenClasses))
ResolveArgs(st, names, i, acc, fuel) ==
  IF i > Len(names) THEN Return(st, acc)
  ELSE LET r == get(st, names[i], fuel - 1)
       IN IF r.k = "throw" THEN r
          ELSE ResolveArgs(r.st, names, i + 1, Append(acc, r.v), fuel)

\* faulty variant: the resolved values reach the constructor in reverse order
ConstructReversed(st, file, args, fuel) ==
  Return([Logged(st, [e |-> "new", file |-> file,
                      args |-> [i \in 1..Len(args) |-> args[Len(args) + 1 - i]],
                      id |-> st.nextId, d |-> MaxDepth - fuel])
            EXCEPT !.nextId = @ + 1],
         Obj(st.nextId))

\* new (Function.prototype.bind.apply(dependency.file, args)), new (dependency.file)()
Construct(st, file, args, fuel) ==
  Return([Logged(st, [e |-> "new", file |-> file, args |-> args,
                      id |-> st.nextId, d |-> MaxDepth - fuel])
            EXCEPT !.nextId = @ + 1],
         Obj(st.nextId))

RoutedToNodeModules(c, depName) ==
  \/ Truthy(config.nodeModulePrefix)
       /\ startsWith(depName, ToChars(config.nodeModulePrefix))
  \/ ~has(c, depName)

\* faulty variant: a registered function is invoked instead of being handed back
GetLocalInvoking(st, depName, fuel) ==
  LET dependency == st.container[depName]
  IN IF Truthy(dependency.isFunction) THEN CallFactory(st, dependency.function, fuel)
     ELSE IF Truthy(dependency.isConstant) THEN Return(st, dependency.constant)
     ELSE IF Truthy(dependency.isFactory) THEN CallFactory(st, dependency.factory, fuel)
     ELSE Construct(st, dependency.file, <<>>, fuel)

\* faulty variant: a name seen before in the running call is refused
GetLocalGuarded(st, depName, fuel) ==
  LET s1 == [st EXCEPT !.seen = Append(@, depName)]
      dependency == s1.container[depName]
  IN IF \E i \in 1..Len(st.seen) : st.seen[i] = depName
       THEN Throw(st, Err("Circular dependency found: ", depName))
     ELSE IF Truthy(dependency.isSingleton) /\ Truthy(dependency.instance)
       THEN Return(s1, dependency.instance)
     ELSE IF Truthy(dependency.isFunction) THEN Return(s1, dependency.function)
     ELSE IF Truthy(dependency.isConstant) THEN Return(s1, dependency.constant)
     ELSE IF Truthy(dependency.isFactory) THEN CallFactory(s1, dependency.factory, fuel)
     ELSE IF Truthy(dependency.args)
       THEN LET a == ResolveArgs(s1, dependency.args.xs, 1, <<>>, fuel)
                n == IF a.k = "throw" THEN a ELSE Construct(a.st, dependency.file, a.v, fuel)
            IN IF n.k = "throw" THEN n
               ELSE IF Truthy(dependency.isSingleton)
                 THEN Return([n.st EXCEPT !.container[depName].instance = n.v], n.v)
               ELSE n
     ELSE Construct(s1, dependency.file, <<>>, fuel)

GetLocal(st, depName, fuel) ==
  LET s1 == [st EXCEPT !.seen = Append(@, depName)]
      dependency == s1.container[depName]
  IN IF Truthy(dependency.isSingleton) /\ Truthy(dependency.instance)
       THEN Return(s1, dependency.instance)
     ELSE IF Truthy(dependency.isFunction) THEN Return(s1, dependency.function)
     ELSE IF Truthy(dependency.isConstant) THEN Return(s1, dependency.constant)
     ELSE IF Truthy(dependency.isFactory) THEN CallFactory(s1, dependency.factory, fuel)
     ELSE IF Truthy(dependency.args)
       THEN LET a == ResolveArgs(s1, dependency.args.xs, 1, <<>>, fuel)
                n == IF a.k = "throw" THEN a ELSE Construct(a.st, dependency.file, a.v, fuel)
            IN IF n.k = "throw" THEN n
               ELSE IF Truthy(dependency.isSingleton)
                 THEN Return([n.st EXCEPT !.container[depName].instance = n.v], n.v)
               ELSE n
     ELSE Construct(s1, dependency.file, <<>>, fuel)

\* get(depName, seenClasses = []); a call stack deeper than the engine allows
\* ends the call with a RangeError
get(st, depName, fuel) ==
  IF fuel = 0 THEN Throw(st, Err("RangeError", <<>>))
  ELSE LET s0 == Logged(st, [e |-> "get", name |-> depName, d |-> MaxDepth - fuel])
           r == IF RoutedToNodeModules(s0.container, depName)
                  THEN getNodeModule(s0, depName)
                  ELSE GetLocal(s0, depName, fuel)
       IN IF r.k = "throw" THEN r
          ELSE [r EXCEPT !.st = Logged(@, [e |-> "ret", name |-> depName, v |-> r.v,
                                           d |-> MaxDepth - fuel])]

\* ------------------------------------------------------------- getClass
\* faulty variant: getClass answers with an instance, as get does
getClassInstantiating(st, depName) == get(st, depName, MaxDepth)

getClass(st, depName) ==
  IF ~has(st.container, depName)
    THEN Throw(st, Err("Container cannot find user module: ", depName))
  ELSE LET dependency == st.container[depName]
       IN IF Truthy(dependency.isFunction)
            THEN Throw(st, Err("Cannot return class for dependency, it is a pre-made instance: ", depName))
          ELSE IF Truthy(dependency.isConstant)
            THEN Throw(st, Err("Cannot return class for dependency, it is a constant: ", depName))
          ELSE Return(st, dependency.file)

\* --------------------------------------------------------- registration
\* faulty variant: the duplicate check is gone and the entry is overwritten
setDependencyOverwrite(st, name, dependency) ==
  Return([st EXCEPT !.container =
            [n \in DOMAIN @ \cup {name} |-> IF n = name THEN dependency ELSE @[n]]],
         Undef)

\* _setDependency(name, dependency)
setDependency(st, name, dependency) ==
  IF has(st.container, name)
    THEN Throw(st, Err("Duplicate dependency found: ", name))
  ELSE Return([st EXCEPT !.container =
                 [n \in DOMAIN @ \cup {name} |-> IF n = name THEN dependency ELSE @[n]]],
              Undef)

addConstant(st, name, constant) == setDependency(st, name, ConstantDef(constant))
addFunction(st, name, func) == setDependency(st, name, FunctionDef(func))
addFactory(st, name, factory) == setDependency(st, name, FactoryDef(factory))

\* faulty variant: the prefix handed to the scan is dropped for the configured one
createDepNameConfigured(name, prefix) == ToChars(config.prefix) \o ToChars(name)

\* _createDepName(name, prefix = this.config.prefix): prefix + name
createDepName(name, prefix) ==
  ToChars(IF prefix = Undef THEN config.prefix ELSE prefix) \o ToChars(name)

\* requiredFile[k]: an own property, undefined when the file does not set it
Prop(requiredFile, k) ==
  IF k \in DOMAIN requiredFile.props THEN requiredFile.props[k] ELSE Undef

\* faulty variant: the singleton flag of the file is not read
IsSingletonFlagIgnored(requiredFile) == TRUE

\* requiredFile.singleton === undefined || requiredFile.singleton === true
IsSingletonFlag(requiredFile) ==
  Prop(requiredFile, "singleton") = Undef \/ Prop(requiredFile, "singleton") = Bool(TRUE)

\* requiredFile.depName || requiredFile.name
ClassDepName(requiredFile) ==
  IF Truthy(Prop(requiredFile, "depName")) THEN Prop(requiredFile, "depName")
  ELSE requiredFile.name

addClassDefinition(st, requiredFile, prefix) ==
  setDependency(st, createDepName(ClassDepName(requiredFile), prefix),
                ClassDef(getFunctionArgs(requiredFile.src), requiredFile.v,
                         IsSingletonFlag(requiredFile)))

addConstantFile(st, requiredFile, prefix) ==
  setDependency(st, createDepName(Prop(requiredFile, "depName"), prefix),
                ConstantDef(Prop(requiredFile, "constant")))

addFunctionFile(st, requiredFile, prefix) ==
  setDependency(st, createDepName(Prop(requiredFile, "depName"), prefix),
                FunctionDef(Prop(requiredFile, "function")))

addFactoryFile(st, requiredFile, prefix) ==
  setDependency(st, createDepName(Prop(requiredFile, "depName"), prefix),
                FactoryDef(Prop(requiredFile, "factory")))

\* faulty variant: the constant shape is looked for before the factory shape
addFileConstantFirst(st, requiredFile, prefixArg) ==
  LET prefix == IF prefixArg = Undef THEN config.prefix ELSE prefixArg
      props == DOMAIN requiredFile.props
      r == IF requiredFile.isCtor THEN addClassDefinition(st, requiredFile, prefix)
           ELSE IF "constant" \in props THEN addConstantFile(st, requiredFile, prefix)
           ELSE IF "factory" \in props THEN addFactoryFile(st, requiredFile, prefix)
           ELSE IF "function" \in props THEN addFunctionFile(st, requiredFile, prefix)
           ELSE Return(st, Undef)
  IN IF "ignore" \in props /\ Truthy(requiredFile.props["ignore"])
       THEN Return(st, Undef)
     ELSE r

\* faulty variant: a file is skipped as soon as it has an ignore property
addFileIgnorePresent(st, requiredFile, prefixArg) ==
  LET prefix == IF prefixArg = Undef THEN config.prefix ELSE prefixArg
      props == DOMAIN requiredFile.props
      r == IF requiredFile.isCtor THEN addClassDefinition(st, requiredFile, prefix)
           ELSE IF "factory" \in props THEN addFactoryFile(st, requiredFile, prefix)
           ELSE IF "constant" \in props THEN addConstantFile(st, requiredFile, prefix)
           ELSE IF "function" \in props THEN addFunctionFile(st, requiredFile, prefix)
           ELSE Return(st, Undef)
  IN IF "ignore" \in props THEN Return(st, Undef) ELSE r

\* addFile(fullPath, prefix = this.config.prefix), on the module the path loads
addFile(st, requiredFile, prefixArg) ==
  LET prefix == IF prefixArg = Undef THEN config.prefix ELSE prefixArg
      props == DOMAIN requiredFile.props
      r == IF requiredFile.isCtor THEN addClassDefinition(st, requiredFile, prefix)
           ELSE IF "factory" \in props THEN addFactoryFile(st, requiredFile, prefix)
           ELSE IF "constant" \in props THEN addConstantFile(st, requiredFile, prefix)
           ELSE IF "function" \in props THEN addFunctionFile(st, requiredFile, prefix)
           ELSE Return(st, Undef)
  IN IF "ignore" \in props /\ Truthy(requiredFile.props["ignore"])
       THEN Return(st, Undef)
     ELSE r

\* addDirectory(directory, prefix = this.config.prefix): the entries of the
\* directory in readdir order, sub-directories first walked to their end
RECURSIVE addDirectory(_, _, _)
RECURSIVE AddEntries(_, _, _, _)
AddEntries(st, entries, i, prefix) ==
  IF i > Len(entries) THEN Return(st, Undef)
  ELSE LET entry == entries[i]
           r == IF entry.isDirectory THEN addDirectory(st, entry.entries, prefix)
                ELSE IF entry.extname = ".js" THEN addFile(st, entry.module, prefix)
                ELSE Return(st, Undef)
       IN IF r.k = "throw" THEN r ELSE AddEntries(r.st, entries, i + 1, prefix)

addDirectory(st, entries, prefixArg) ==
  AddEntries(st, entries, 1, IF prefixArg = Undef THEN config.prefix ELSE prefixArg)

\* ------------------------------------------------- the constructor
\* defaultConfig, with the keys of the caller's config copied over it
ConfigOf(given) ==
  [k \in {"prefix", "npmPrefix", "debug", "nodeModulePrefix"} |->
     IF k \in DOMAIN given THEN given[k]
     ELSE IF k = "prefix" THEN Str(<<>>)
     ELSE IF k = "npmPrefix" THEN Str(<<>>)
     ELSE IF k = "debug" THEN Bool(FALSE)
     ELSE Undef]

\* --------------------------------------------------------------- inputs
ClassFile(id, name, src, props) ==
  [v |-> Fn(id), isCtor |-> TRUE, name |-> Str(name), src |-> src, props |-> props]
ObjectFile(k, props) ==
  [v |-> UObj(k), isCtor |-> FALSE, name |-> Undef, src |-> <<>>, props |-> props]
JsFile(requiredFile) == [isDirectory |-> FALSE, extname |-> ".js", module |-> requiredFile]
OtherFile(requiredFile) == [isDirectory |-> FALSE, extname |-> ".md", module |-> requiredFile]
SubDirectory(entries) == [isDirectory |-> TRUE, entries |-> entries]

\* class B { squeeze() {} }
Ball == ClassFile(10, <<"B">>, <<"{", NL, "}">>, <<>>)
\* class D { constructor(B, sI) { ... } }
Dog == ClassFile(11, <<"D">>, <<CT, "B", ",", " ", "s", "I", ")", " ", "{", NL, "}">>, <<>>)
\* class T { constructor(B) { ... } }, module.exports.singleton = false
Toy == ClassFile(12, <<"T">>, <<CT, "B", ")", " ", "{", NL, "}">>,
                 [singleton |-> Bool(FALSE)])
\* class D {}, module.exports.depName = 'W'
Wolf == ClassFile(13, <<"D">>, <<"{", NL, "}">>, [depName |-> Str(<<"W">>)])
\* module.exports = {depName: 'C', constant: {...}}
Cfg == ObjectFile(1, [depName |-> Str(<<"C">>), constant |-> UObj(2)])
\* module.exports = {depName: 'F', factory: function(container) {...}}
Car == ObjectFile(3, [depName |-> Str(<<"F">>), factory |-> FreshFactory])

\* class S { constructor(sI) { ... } }  (README, socket-handler.js)
Sock == ClassFile(14, <<"S">>, <<CT, "s", "I", ")", " ", "{", NL, "}">>, <<>>)
\* class P { constructor($b) { ... } }  (README, the dog that asks for $bcrypt)
Pup == ClassFile(15, <<"P">>, <<CT, "$", "b", ")", " ", "{", NL, "}">>, <<>>)

\* class K {}, with K.factory = function(container) {...}, K.constant = {...}
Kit == ClassFile(16, <<"K">>, <<"{", NL, "}">>,
                 [factory |-> FreshFactory, constant |-> UObj(2)])
\* module.exports = {depName: 'M', factory: ..., constant: {...}, function: ...}
Mix == ObjectFile(4, [depName |-> Str(<<"M">>), factory |-> FreshFactory,
                      constant |-> UObj(2), function |-> PlainFunction])
\* module.exports = {depName: 'U', constant: {...}, function: ...}
Duo == ObjectFile(5, [depName |-> Str(<<"U">>), constant |-> UObj(2),
                      function |-> PlainFunction])
\* module.exports = {depName: 'N', function: ...}
Fun == ObjectFile(6, [depName |-> Str(<<"N">>), function |-> PlainFunction])
\* module.exports = {depName: 'Z'}
Nil == ObjectFile(7, [depName |-> Str(<<"Z">>)])
\* class H { constructor(B) {...} }, module.exports.ignore = true
Hid == ClassFile(17, <<"H">>, <<CT, "B", ")", " ", "{", NL, "}">>,
                 [ignore |-> Bool(TRUE)])
\* module.exports = {depName: 'G', factory: ..., constant: {...}, ignore: 'yes'}
Gag == ObjectFile(8, [depName |-> Str(<<"G">>), factory |-> FreshFactory,
                      constant |-> UObj(2), ignore |-> Str(<<"y", "e", "s">>)])
\* module.exports = {depName: 'Q', function: ..., ignore: 1}
Mum == ObjectFile(9, [depName |-> Str(<<"Q">>), function |-> PlainFunction,
                      ignore |-> Num(1)])
\* class V {}, module.exports.ignore = false
Vis == ClassFile(18, <<"V">>, <<"{", NL, "}">>, [ignore |-> Bool(FALSE)])
\* module.exports = {depName: 'O', constant: {...}, ignore: 0}
Out == ObjectFile(10, [depName |-> Str(<<"O">>), constant |-> UObj(2),
                       ignore |-> Num(0)])

\* the diamond: class A { constructor(L, R) }, class L { constructor(K) },
\* class R { constructor(K) }, and K either without constructor or with one
Top == ClassFile(20, <<"A">>, <<CT, "L", ",", " ", "R", ")", " ", "{", NL, "}">>, <<>>)
Left == ClassFile(21, <<"L">>, <<CT, "K", ")", " ", "{", NL, "}">>, <<>>)
Right == ClassFile(22, <<"R">>, <<CT, "K", ")", " ", "{", NL, "}">>, <<>>)
Kern == ClassFile(23, <<"K">>, <<"{", NL, "}">>, <<>>)
Kore == ClassFile(24, <<"K">>, <<CT, "C", ")", " ", "{", NL, "}">>, <<>>)
\* class X { constructor(X) }
Self == ClassFile(25, <<"X">>, <<CT, "X", ")", " ", "{", NL, "}">>, <<>>)
\* class Y { constructor(Z) }, class Z { constructor(C, Y) }
Yin == ClassFile(26, <<"Y">>, <<CT, "Z", ")", " ", "{", NL, "}">>, <<>>)
Yan == ClassFile(27, <<"Z">>, <<CT, "C", ",", " ", "Y", ")", " ", "{", NL, "}">>, <<>>)

\* What the host application does with the container: the files it scans, the
\* names and values it registers, the names it asks for.
\* Resolution: a dog with a ball (class or constant) and an NPM module, a
\* non-singleton toy, a factory.
Resolution ==
  [maxObjs |-> MaxObjs, files |-> {Ball, Dog, Toy}, prefixArgs |-> {Undef},
   directory |-> <<JsFile(Ball), OtherFile(Cfg), SubDirectory(<<JsFile(Dog)>>)>>,
   constNames |-> {<<"B">>}, constants |-> {UObj(2), Num(0)},
   funcNames |-> {<<"F">>}, factNames |-> {<<"F">>}, factories |-> {FreshFactory, WireFactory},
   hasNames |-> {<<"B">>}, classNames |-> {<<"D">>, <<"F">>},
   getNames |-> {<<"B">>, <<"D">>, <<"T">>, <<"F">>}]

\* External modules: names that are not registered, and names that carry the
\* NPM prefix, with and without a local registration under the same name.
External ==
  [maxObjs |-> MaxObjs, files |-> {Sock, Pup}, prefixArgs |-> {Undef},
   directory |-> <<JsFile(Sock)>>,
   constNames |-> {<<"$", "b">>}, constants |-> {UObj(2)},
   funcNames |-> {<<"s", "I">>}, factNames |-> {<<"s", "I">>}, factories |-> {FreshFactory},
   hasNames |-> {<<"$", "b">>}, classNames |-> {<<"S">>},
   getNames |-> {<<"s", "I">>, <<"$", "b">>, <<"S">>, <<"P">>}]

\* Registration: one directory scanned with the configured prefix or with an
\* explicit one, and names registered by hand.
Registration ==
  [maxObjs |-> MaxObjs, files |-> {Dog, Cfg}, prefixArgs |-> {Undef, Str(<<"_">>)},
   directory |-> <<JsFile(Wolf), SubDirectory(<<OtherFile(Ball), JsFile(Car)>>)>>,
   constNames |-> {<<"B">>}, constants |-> {UObj(2)},
   funcNames |-> {<<"$", "D">>}, factNames |-> {<<"F">>}, factories |-> {FreshFactory},
   hasNames |-> {<<"D">>, <<"$", "D">>}, classNames |-> {<<"$", "D">>},
   getNames |-> {<<"D">>, <<"$", "D">>, <<"W">>}]

\* Scanning: files of every shape, of several shapes at once and of none, and
\* files that carry an ignore flag.
Scanning ==
  [maxObjs |-> MaxObjs, files |-> {Kit, Mix, Duo, Fun, Nil, Hid, Gag, Mum, Vis, Out},
   prefixArgs |-> {Undef},
   directory |-> <<JsFile(Hid), JsFile(Nil), SubDirectory(<<JsFile(Gag), JsFile(Fun)>>)>>,
   constNames |-> {<<"H">>}, constants |-> {UObj(2)},
   funcNames |-> {<<"N">>}, factNames |-> {<<"G">>}, factories |-> {FreshFactory},
   hasNames |-> {<<"H">>, <<"G">>, <<"Q">>, <<"V">>, <<"O">>, <<"Z">>},
   classNames |-> {<<"K">>},
   getNames |-> {<<"M">>, <<"U">>}]

\* Graph: classes that depend on classes, as a diamond and in cycles.
Graph ==
  [maxObjs |-> MaxGraphObjs, files |-> {Kern, Kore, Self}, prefixArgs |-> {Undef},
   directory |-> <<JsFile(Left), JsFile(Right), JsFile(Top),
                   SubDirectory(<<JsFile(Yin), JsFile(Yan)>>)>>,
   constNames |-> {<<"C">>}, constants |-> {UObj(2)},
   funcNames |-> {<<"C">>}, factNames |-> {<<"C">>}, factories |-> {FreshFactory},
   hasNames |-> {<<"K">>}, classNames |-> {<<"K">>},
   getNames |-> {<<"A">>, <<"L">>, <<"R">>, <<"K">>, <<"X">>, <<"Y">>, <<"Z">>}]

\* the names handed to Util.kebabCase: every name of up to MaxLen characters
\* over a lower-case letter, two upper-case letters and a digit, and the
\* two names of the documentation
Alphabet == {"a", "O", "I", "2"}
AppleOrange2 == <<"a", "p", "p", "l", "e", "O", "r", "a", "n", "g", "e", "2">>
SocketIo == <<"s", "o", "c", "k", "e", "t", "I", "o">>
Names == UNION {[1..k -> Alphabet] : k \in 1..MaxLen} \cup {AppleOrange2, SocketIo}
\* Naming: get of such names on a container that has registered nothing
Naming == [maxObjs |-> MaxObjs, getNames |-> Names]

SocketNames == {<<"s", "I">>, <<"s", "-", "i">>, <<"s", ".", "i">>}

\* ---------------------------------------------------------------- actions
InitOn(configs, moduleSets) ==
  /\ config \in {ConfigOf(g) : g \in configs}
  /\ modules \in moduleSets
  /\ container = <<>>
  /\ nextId = 1
  /\ returned = {}
  /\ last = [op |-> "new", arg |-> <<>>, k |-> "return", v |-> Undef, log |-> <<>>]

\* the pairs <<name, value>> of the get calls that returned during a call
Returns(log) == {<<log[i].name, log[i].v>> : i \in {j \in 1..Len(log) : log[j].e = "ret"}}

Finish(W, op, arg, r) ==
  /\ r.st.nextId <= W.maxObjs + 1
  /\ container' = r.st.container
  /\ nextId' = r.st.nextId
  /\ returned' = returned \cup Returns(r.st.log)
  /\ last' = [op |-> op, arg |-> arg, k |-> r.k, v |-> r.v, log |-> r.st.log]
  /\ UNCHANGED <<config, modules>>

Now == StateOf(container, nextId)

AddConstant(W) ==
  \E name \in W.constNames, c \in W.constants :
    Finish(W, "addConstant", <<name, c>>, addConstant(Now, name, c))

AddFunction(W) ==
  \E name \in W.funcNames :
    Finish(W, "addFunction", <<name, PlainFunction>>, addFunction(Now, name, PlainFunction))

AddFactory(W) ==
  \E name \in W.factNames, f \in W.factories :
    Finish(W, "addFactory", <<name, f>>, addFactory(Now, name, f))

AddFile(W) ==
  \E requiredFile \in W.files, prefix \in W.prefixArgs :
    Finish(W, "addFile", <<requiredFile, prefix>>, addFile(Now, requiredFile, prefix))

AddDirectory(W) ==
  \E prefix \in W.prefixArgs :
    Finish(W, "addDirectory", <<prefix>>, addDirectory(Now, W.directory, prefix))

Has(W) ==
  \E name \in W.hasNames :
    Finish(W, "has", <<name>>, Return(Now, Bool(has(container, name))))

Get(W) ==
  \E name \in W.getNames : Finish(W, "get", <<name>>, get(Now, name, MaxDepth))

GetClass(W) ==
  \E name \in W.classNames : Finish(W, "getClass", <<name>>, getClass(Now, name))

NextOn(W) ==
  \/ AddConstant(W)
  \/ AddFunction(W)
  \/ AddFactory(W)
  \/ AddFile(W)
  \/ AddDirectory(W)
  \/ Has(W)
  \/ Get(W)
  \/ GetClass(W)

Init == InitOn({<<>>}, {{<<"s", ".", "i">>}, {<<"s", "I">>, <<"s", "-", "i">>}})
Next == NextOn(Resolution)
Spec == Init /\ [][Next]_vars

\* the container while the application registers its sources
InitReg == InitOn({<<>>, [prefix |-> Str(<<"$">>)]}, {{<<"s", ".", "i">>}})
NextReg == NextOn(Registration)
SpecReg == InitReg /\ [][NextReg]_vars

\* the container of an application that relies on NPM modules
InitExt ==
  InitOn({<<>>, [npmPrefix |-> Str(<<"$">>)], [nodeModulePrefix |-> Str(<<"$">>)]},
         {S \cup {<<"b">>} : S \in SUBSET SocketNames})
NextExt == NextOn(External)
SpecExt == InitExt /\ [][NextExt]_vars

\* the container while the application scans its source files
InitScan == InitOn({<<>>}, {{<<"s", ".", "i">>}})
NextScan == NextOn(Scanning)
SpecScan == InitScan /\ [][NextScan]_vars

\* the container of an application whose classes depend on each other
InitGraph == InitOn({<<>>}, {{<<"s", ".", "i">>}})
NextGraph == NextOn(Graph)
SpecGraph == InitGraph /\ [][NextGraph]_vars

\* Util.kebabCase applied to a name, and the lookup of a name that is not
\* registered
KebabCase ==
  /\ \E name \in Names :
       last' = [op |-> "kebabCase", arg |-> <<name>>, k |-> "return",
                v |-> Str(kebabCase(name)), log |-> <<>>]
  /\ UNCHANGED <<config, modules, container, nextId, returned>>

InitKebab == InitOn({<<>>}, {{}, {<<"-", "o", "i">>}})
NextKebab ==
  \/ KebabCase
  \/ Get(Naming)
SpecKebab == InitKebab /\ [][NextKebab]_vars

\* ================================================================ claims
AllFiles ==
  {Ball, Dog, Toy, Wolf, Cfg, Car, Sock, Pup, Kit, Mix, Duo, Fun, Nil, Hid, Gag, Mum, Vis, Out,
   Top, Left, Right, Kern, Kore, Self, Yin, Yan}

\* the values the successful get(n) calls returned so far
ReturnedBy(n) == {p[2] : p \in {q \in returned : q[1] = n}}

\* n is registered as the class of a scanned file with the given singleton flags
ClassWithFlag(n, flags) ==
  /\ n \in DOMAIN container
  /\ \E f \in AllFiles :
       f.isCtor /\ container[n].file = f.v /\ Prop(f, "singleton") \in flags

RetIndices(log) == {i \in 1..Len(log) : log[i].e = "ret"}

\* C1: every class registered with its singleton flag absent or true hands the
\* identical instance to all successful get calls, whatever its constructor
\* parameters.
C1_SingletonIdentity ==
  \A n \in DOMAIN container :
    ClassWithFlag(n, {Undef, Bool(TRUE)}) => Cardinality(ReturnedBy(n)) <= 1

\* the name a scanned file asks for: the prefix passed to the scan, else the
\* configured one, before the declared depName, else before the class's name
ExpectedPrefix(p) == IF p = Undef THEN config.prefix.s ELSE p.s
ExpectedName(f, p) ==
  ExpectedPrefix(p) \o (IF "depName" \in DOMAIN f.props THEN f.props["depName"].s ELSE f.name.s)
Ignored(f) == "ignore" \in DOMAIN f.props /\ Truthy(f.props["ignore"])
HasShape(f) == f.isCtor \/ DOMAIN f.props \cap {"factory", "constant", "function"} # {}

\* the one name a registration call with these arguments asks for
AsksFor(op, arg) ==
  IF op = "addFile" THEN ExpectedName(arg[1], arg[2]) ELSE arg[1]
RegistersOne(op, arg) ==
  \/ op \in {"addConstant", "addFunction", "addFactory"}
  \/ op = "addFile" /\ ~Ignored(arg[1]) /\ HasShape(arg[1])

RECURSIVE Ascending(_)
Ascending(S) == IF S = {} THEN <<>> ELSE <<Min(S)>> \o Ascending(S \ {Min(S)})

\* the get call that runs the constructor logged at position k
ConstructingCall(log, k) ==
  Max({i \in 1..(k - 1) : log[i].e = "get" /\ log[i].d = log[k].d})

\* the events of kind e that the constructing call's own loop over its
\* parameters produced (one level below it), in order
ArgEvents(log, k, e) ==
  Ascending({i \in (ConstructingCall(log, k) + 1)..(k - 1) :
               log[i].e = e /\ log[i].d = log[k].d + 1})

DeclaredArgs(n) == IF container[n].args.t = "array" THEN container[n].args.xs ELSE <<>>

\* C3: whenever get constructs a class, it has resolved the class's declared
\* parameters by get, each once and in declared order, and the i-th
\* constructor argument is the value the i-th of these get calls returned.
C3_Wiring ==
  last.op = "get" =>
    \A k \in {i \in 1..Len(last.log) : last.log[i].e = "new"} :
      LET log == last.log
          A == log[ConstructingCall(log, k)].name
          params == DeclaredArgs(A)
          gets == ArgEvents(log, k, "get")
          rets == ArgEvents(log, k, "ret")
      IN /\ log[k].file = container[A].file
         /\ Len(log[k].args) = Len(params)
         /\ Len(gets) = Len(params)
         /\ Len(rets) = Len(params)
         /\ \A j \in 1..Len(params) :
              /\ log[gets[j]].name = params[j]
              /\ log[rets[j]].name = params[j]
              /\ log[k].args[j] = log[rets[j]].v

\* Dog, declaring (B, sI), was built with the registered constant and the
\* NPM module socket.io, in this order
C3_Witness ==
  /\ last.op = "get"
  /\ last.k = "return"
  /\ \E k \in 1..Len(last.log) :
       /\ last.log[k].e = "new"
       /\ last.log[k].file = Dog.v
       /\ last.log[k].args = <<UObj(2), Mod(<<"s", ".", "i">>)>>

\* C6: a class registered with singleton = false is never cached: every get
\* of it that returns hands back an instance built during that very call,
\* different from every instance returned before, and its definition never
\* holds a cached instance.
C6_NonSingletonNeverCached ==
  [][\A n \in DOMAIN container :
       ClassWithFlag(n, {Bool(FALSE)}) =>
         /\ container'[n].instance = Undef
         /\ \A i \in RetIndices(last'.log) :
              last'.log[i].name = n =>
                /\ last'.log[i].v \notin ReturnedBy(n)
                /\ last'.log[i].v.t = "object"
                /\ last'.log[i].v.id >= nextId
                /\ \E k \in 1..(i - 1) :
                     last'.log[k].e = "new" /\ last'.log[k].id = last'.log[i].v.id
    ]_vars

\* two get calls on the non-singleton Toy returned, with different instances
C6_Witness ==
  \E n \in DOMAIN container :
    /\ ClassWithFlag(n, {Bool(FALSE)})
    /\ Cardinality(ReturnedBy(n)) >= 2
    /\ last.op = "get" /\ last.arg = <<n>> /\ last.k = "return"

FactoryName(n) == n \in DOMAIN container /\ container[n].isFactory = Bool(TRUE)

\* the position where the get call entered at position i returned, or the
\* position after the trace when it raised (every enclosing call raises too)
EndOfCall(log, i) ==
  LET R == {r \in (i + 1)..Len(log) : log[r].e = "ret" /\ log[r].d = log[i].d}
  IN IF R = {} THEN Len(log) + 1 ELSE Min(R)

\* C7: every get of a factory definition, at the top or as a dependency,
\* calls the factory exactly once, with the container as its only argument,
\* and returns what that call returned; nothing is cached in the definition.
C7_FactoryEveryTime ==
  last.op = "get" =>
    \A i \in 1..Len(last.log) :
      (last.log[i].e = "get" /\ FactoryName(last.log[i].name)) =>
        LET log == last.log
            n == log[i].name
            d == log[i].d
            end == EndOfCall(log, i)
            ownCalls == {k \in (i + 1)..(end - 1) : log[k].e = "call" /\ log[k].d = d}
        IN /\ ownCalls = {i + 1}
           /\ log[i + 1].fn = container[n].factory
           /\ log[i + 1].args = <<This>>
           /\ end <= Len(log) =>
                /\ log[end - 1].e = "called"
                /\ log[end - 1].d = d
                /\ log[end].v = log[end - 1].v
                /\ log[end].v.t = "object" /\ log[end].v.id < nextId
                /\ log[end].v \notin {container[m].instance : m \in DOMAIN container}
           /\ (i = 1 /\ last.k = "return") => (end = Len(log) /\ last.v = log[end].v)
           /\ container[n] = FactoryDef(container[n].factory)

\* get on the factory that resolves a dependency through the container returned
C7_Witness ==
  /\ last.op = "get" /\ last.k = "return"
  /\ FactoryName(last.arg[1])
  /\ container[last.arg[1]].factory = WireFactory
  /\ Len(last.log) > 4

VerbatimName(n) ==
  n \in DOMAIN container /\ Bool(TRUE) \in {container[n].isConstant, container[n].isFunction}
VerbatimValue(n) ==
  IF container[n].isConstant = Bool(TRUE) THEN container[n].constant ELSE container[n].function

\* C8: get of a name registered as a constant or as a function returns the
\* registered value itself, calls nothing and changes no container state;
\* the same holds when the name is resolved as a dependency.
C8_Verbatim ==
  [][last'.op = "get" =>
       /\ \A i \in RetIndices(last'.log) :
            VerbatimName(last'.log[i].name) =>
              last'.log[i].v = VerbatimValue(last'.log[i].name)
       /\ VerbatimName(last'.arg[1]) =>
            /\ last'.k = "return"
            /\ last'.v = VerbatimValue(last'.arg[1])
            /\ last'.v \in {UObj(2), Num(0), PlainFunction}
            /\ Len(last'.log) = 2
            /\ container' = container
            /\ nextId' = nextId
    ]_vars

\* get returned the falsy constant 0, and get returned the registered function
C8_Witness ==
  /\ last.op = "get" /\ last.k = "return"
  /\ VerbatimName(last.arg[1])
  /\ last.v \in {Num(0), PlainFunction}
  /\ returned # {}
  /\ nextId > 1

ConfiguredNpmPrefix ==
  IF Truthy(config.npmPrefix) THEN config.npmPrefix.s
  ELSE IF Truthy(config.nodeModulePrefix) THEN config.nodeModulePrefix.s
  ELSE <<>>

\* C4: with an external-module prefix configured, get of a name that starts
\* with the prefix asks the module provider first, for the name without the
\* prefix, whether or not the name is registered, and returns that module.
C4_PrefixRouting ==
  (/\ last.op = "get"
   /\ ConfiguredNpmPrefix # <<>>
   /\ startsWith(last.arg[1], ConfiguredNpmPrefix)) =>
    LET n == last.arg[1]
        stripped == SubSeq(n, Len(ConfiguredNpmPrefix) + 1, Len(n))
    IN /\ Len(last.log) >= 2
       /\ last.log[2] = [e |-> "exists", name |-> stripped]
       /\ stripped \in modules => (last.k = "return" /\ last.v = Mod(stripped))

\* the events a lookup of n in the module provider must leave, and its outcome
Candidates(n) == <<n, kebabCase(n), DotName(kebabCase(n))>>
FirstFound(n) == Min({j \in 1..3 : Candidates(n)[j] \in modules})
ExpectedLookup(n) ==
  IF \A j \in 1..3 : Candidates(n)[j] \notin modules
    THEN [j \in 1..3 |-> [e |-> "exists", name |-> Candidates(n)[j]]]
  ELSE [j \in 1..FirstFound(n) |-> [e |-> "exists", name |-> Candidates(n)[j]]]
         \o <<[e |-> "require", name |-> Candidates(n)[FirstFound(n)]]>>

\* C5: a get of a name that is not registered, at the top or as a dependency,
\* asks the provider for the name itself, then its dash-case form, then the
\* dotted form, stops at the first that exists and returns that module; when
\* none exists the call raises the not-found error.
C5_FallbackOrder ==
  last.op = "get" =>
    \A i \in 1..Len(last.log) :
      (last.log[i].e = "get" /\ last.log[i].name \notin DOMAIN container) =>
        LET log == last.log
            n == log[i].name
            E == ExpectedLookup(n)
            none == \A j \in 1..3 : Candidates(n)[j] \notin modules
        IN /\ Len(log) >= i + Len(E)
           /\ SubSeq(log, i + 1, i + Len(E)) = E
           /\ none => /\ Len(log) = i + 3
                      /\ last.k = "throw"
                      /\ last.v = Err("Container could not find NPM module: ", n)
           /\ ~none => /\ Len(log) > i + Len(E)
                       /\ log[i + Len(E) + 1] =
                            [e |-> "ret", name |-> n, d |-> log[i].d,
                             v |-> Mod(Candidates(n)[FirstFound(n)])]
                       /\ i = 1 => (last.k = "return"
                                    /\ last.v = Mod(Candidates(n)[FirstFound(n)]))

\* socketIo is not registered, socket-io is not installed, socket.io is: the
\* third candidate was returned after three questions
C5_Witness ==
  /\ last.op = "get" /\ last.arg = <<<<"s", "I">>>>
  /\ last.k = "return" /\ last.v = Mod(<<"s", ".", "i">>)
  /\ Len(last.log) = 6
  /\ <<"s", "I">> \notin DOMAIN container

\* C10: a scanned file is registered under the scan's prefix (the one passed,
\* else the configured one) followed by its depName, else by its class's own
\* name, and under no other name; addConstant, addFunction and addFactory
\* register under exactly the name given; a get of a name that is not in the
\* registry (Dog, when the class sits under $Dog) goes to the module provider.
C10_RegisteredNames ==
  [][/\ (RegistersOne(last'.op, last'.arg) /\ last'.k = "return") =>
          DOMAIN container' = DOMAIN container \cup {AsksFor(last'.op, last'.arg)}
     /\ (last'.op = "addFile" /\ last'.k = "return" /\ last'.arg[1].isCtor) =>
          container'[AsksFor(last'.op, last'.arg)].file = last'.arg[1].v
     /\ (last'.op = "get" /\ last'.arg[1] \notin DOMAIN container) =>
          /\ Len(last'.log) >= 2
          /\ last'.log[2] = [e |-> "exists", name |-> last'.arg[1]]
          /\ container' = container
    ]_vars

\* with prefix '$' the class Dog sits under $Dog, and get('Dog') ended in the
\* module provider's not-found error
C10_Witness ==
  /\ config.prefix = Str(<<"$">>)
  /\ <<"$", "D">> \in DOMAIN container
  /\ container[<<"$", "D">>].file = Dog.v
  /\ \E n \in DOMAIN container : n = <<"_", "C">>
  /\ <<"D">> \notin DOMAIN container
  /\ last.op = "get" /\ last.arg = <<<<"D">>>>
  /\ last.k = "throw" /\ last.v = Err("Container could not find NPM module: ", <<"D">>)

\* the kinds a definition is flagged with
KindsOf(dependency) ==
  {k \in {"isClass", "isFactory", "isConstant", "isFunction"} : dependency[k] = Bool(TRUE)}

\* the definition a scanned file must end up with: the first shape it matches
\* in the order class, factory, constant, function
FirstShape(f) ==
  IF f.isCtor THEN "isClass"
  ELSE IF "factory" \in DOMAIN f.props THEN "isFactory"
  ELSE IF "constant" \in DOMAIN f.props THEN "isConstant"
  ELSE "isFunction"
Payload(dependency) ==
  CASE dependency.isClass = Bool(TRUE) -> dependency.file
    [] dependency.isFactory = Bool(TRUE) -> dependency.factory
    [] dependency.isConstant = Bool(TRUE) -> dependency.constant
    [] OTHER -> dependency.function
ExpectedPayload(f) ==
  CASE FirstShape(f) = "isClass" -> f.v
    [] FirstShape(f) = "isFactory" -> f.props["factory"]
    [] FirstShape(f) = "isConstant" -> f.props["constant"]
    [] OTHER -> f.props["function"]

\* C11: a scanned file that is not ignored is registered as exactly one kind,
\* the first it matches in the order class, factory, constant, function, with
\* that shape's value; a file that matches no shape is skipped: the scan
\* returns and the registry stays as it was.
C11_ScanPrecedence ==
  [][(last'.op = "addFile" /\ ~Ignored(last'.arg[1])) =>
       LET f == last'.arg[1]
       IN IF ~HasShape(f)
            THEN last'.k = "return" /\ container' = container /\ nextId' = nextId
          ELSE LET n == ExpectedName(f, last'.arg[2])
               IN n \notin DOMAIN container =>
                    /\ last'.k = "return"
                    /\ DOMAIN container' = DOMAIN container \cup {n}
                    /\ KindsOf(container'[n]) = {FirstShape(f)}
                    /\ Payload(container'[n]) = ExpectedPayload(f)
    ]_vars

\* the file with a factory, a constant and a function sits in the registry as
\* a factory, the class that carries a factory property as a class, and the
\* scan of the file without any shape returned
C11_Witness ==
  /\ <<"M">> \in DOMAIN container /\ KindsOf(container[<<"M">>]) = {"isFactory"}
  /\ <<"K">> \in DOMAIN container /\ KindsOf(container[<<"K">>]) = {"isClass"}
  /\ <<"U">> \in DOMAIN container /\ KindsOf(container[<<"U">>]) = {"isConstant"}
  /\ last.op = "addFile" /\ last.arg[1] = Nil /\ last.k = "return"

\* C12: the scan of a file whose ignore property is truthy returns without
\* changing the registry, whatever shape the file has, so the name it would
\* have had stays unregistered; a file whose ignore property is falsy is
\* registered like a file without the property; a directory scan registers
\* none of its ignored files.
C12_IgnoredNeverRegistered ==
  [][/\ last'.op = "addFile" =>
          LET f == last'.arg[1]
              n == ExpectedName(f, last'.arg[2])
          IN /\ Ignored(f) =>
                  /\ last'.k = "return"
                  /\ container' = container
                  /\ n \notin DOMAIN container => ~has(container', n)
             /\ ("ignore" \in DOMAIN f.props /\ ~Ignored(f) /\ n \notin DOMAIN container) =>
                  /\ last'.k = "return"
                  /\ has(container', n)
                  /\ KindsOf(container'[n]) = {FirstShape(f)}
     /\ last'.op = "addDirectory" =>
          \A f \in {Hid, Gag} :
            ExpectedName(f, Undef) \notin DOMAIN container =>
              ExpectedName(f, Undef) \notin DOMAIN container'
     /\ (last'.op = "has" /\ last'.arg[1] \notin DOMAIN container) => last'.v = Bool(FALSE)
    ]_vars

\* the ignored class was scanned and has('H') then answered false, while the
\* class and the constant whose ignore flag is falsy are registered
C12_Witness ==
  /\ last.op = "has" /\ last.arg = <<<<"H">>>> /\ last.v = Bool(FALSE)
  /\ <<"V">> \in DOMAIN container /\ KindsOf(container[<<"V">>]) = {"isClass"}
  /\ <<"O">> \in DOMAIN container /\ KindsOf(container[<<"O">>]) = {"isConstant"}
  /\ <<"N">> \in DOMAIN container

\* the names a call of a registration operation asks the registry to take
NamesAsked(op, arg) ==
  IF op = "addDirectory" THEN {ExpectedName(f, arg[1]) : f \in {Ball, Dog}}
  ELSE IF RegistersOne(op, arg) THEN {AsksFor(op, arg)}
  ELSE {}

NewIndices(log, file) == {k \in 1..Len(log) : log[k].e = "new" /\ log[k].file = file}

\* C14: a singleton class is constructed at most once over all get calls on
\* the container, at the top or as a dependency of other classes: one call
\* constructs it at most once, and not at all when an earlier call did; every
\* resolution of its name yields the one instance (the diamond A[L, R], L[K],
\* R[K] wires the same K into L and R); a cached instance is never replaced
\* or cleared.
C14_WriteOnceSingleton ==
  [][\A n \in DOMAIN container :
       ClassWithFlag(n, {Undef, Bool(TRUE)}) =>
         LET news == NewIndices(last'.log, container[n].file)
             rets == {last'.log[i].v : i \in {j \in RetIndices(last'.log) : last'.log[j].name = n}}
         IN /\ Cardinality(news) <= 1
            /\ ReturnedBy(n) # {} => news = {}
            /\ Cardinality(rets \cup ReturnedBy(n)) <= 1
            /\ Truthy(container[n].instance) => container'[n].instance = container[n].instance
    ]_vars

\* the dependency graph of the registry: the names a get of n resolves next,
\* which are the declared parameters of a class that has no cached instance
ParamsOf(n) ==
  IF /\ n \in DOMAIN container
     /\ container[n].isClass = Bool(TRUE)
     /\ container[n].args.t = "array"
     /\ ~(Truthy(container[n].isSingleton) /\ Truthy(container[n].instance))
    THEN {container[n].args.xs[i] : i \in 1..Len(container[n].args.xs)}
  ELSE {}
RECURSIVE Closure(_, _)
Closure(S, k) ==
  IF k = 0 THEN S ELSE Closure(S \cup UNION {ParamsOf(m) : m \in S}, k - 1)
\* the names reachable from n by one or more parameter edges
ReachPlus(n) == Closure(ParamsOf(n), Cardinality(DOMAIN container))
OnCycle(n) == n \in ReachPlus(n)
CycleOf(n) == {m \in ReachPlus(n) : n \in ReachPlus(m)}
\* neither registered nor installed under any of the three candidate names
Missing(p) == p \notin DOMAIN container /\ \A j \in 1..3 : Candidates(p)[j] \notin modules

\* C15: get of a class that sits on a cycle of parameter lists (itself, or a
\* longer cycle), when every other name reachable from it can be resolved,
\* recurses until the call stack is exhausted: it raises that failure and no
\* container error, no get of a class on the cycle returns a value, and no
\* class on the cycle gets a cached instance.
C15_NoCycleGuard ==
  [][(/\ last'.op = "get"
      /\ OnCycle(last'.arg[1])
      /\ \A q \in ReachPlus(last'.arg[1]) : ~Missing(q)) =>
       /\ last'.k = "throw"
       /\ last'.v = Err("RangeError", <<>>)
       /\ \A i \in RetIndices(last'.log) : last'.log[i].name \notin CycleOf(last'.arg[1])
       /\ \A m \in CycleOf(last'.arg[1]) : container'[m].instance = Undef
       /\ DOMAIN container' = DOMAIN container
    ]_vars

\* get('Y') on the cycle Y -> Z -> Y, with Z's other parameter C registered,
\* ended in the exhausted call stack after C had been resolved on the way
C15_Witness ==
  /\ last.op = "get" /\ last.arg = <<<<"Y">>>>
  /\ last.k = "throw" /\ last.v = Err("RangeError", <<>>)
  /\ \E i \in RetIndices(last.log) : last.log[i].name = <<"C">>
  /\ {<<"Y">>, <<"Z">>} \subseteq DOMAIN container
  /\ container[<<"Y">>].instance = Undef /\ container[<<"Z">>].instance = Undef

\* no cycle of parameter lists can be reached from n
Acyclic(n) == \A q \in {n} \cup ReachPlus(n) : ~OnCycle(q)

\* the get calls that the call entered at position i made itself, in order
OwnGets(log, i) ==
  Ascending({j \in (i + 1)..(EndOfCall(log, i) - 1) :
               log[j].e = "get" /\ log[j].d = log[i].d + 1})

\* C16: when no cycle of parameter lists can be reached from the name, get
\* finishes within the call stack: it returns a value or raises the container's
\* error for a module that cannot be found; and a get of a class resolves its
\* declared parameters in order, each occurrence at most once (all of them
\* when it goes on to construct, the first ones when a parameter fails, none
\* when the cached instance is returned).
C16_AcyclicTerminates ==
  [][(last'.op = "get" /\ Acyclic(last'.arg[1])) =>
       /\ \/ last'.k = "return"
          \/ /\ last'.k = "throw"
             /\ last'.v.msg = "Container could not find NPM module: "
       /\ \A i \in 1..Len(last'.log) :
            (/\ last'.log[i].e = "get"
             /\ last'.log[i].name \in DOMAIN container
             /\ container[last'.log[i].name].isClass = Bool(TRUE)) =>
              LET log == last'.log
                  params == DeclaredArgs(log[i].name)
                  gets == OwnGets(log, i)
                  built == \E k \in (i + 1)..(EndOfCall(log, i) - 1) :
                             log[k].e = "new" /\ log[k].d = log[i].d
              IN /\ Len(gets) <= Len(params)
                 /\ \A j \in 1..Len(gets) : log[gets[j]].name = params[j]
                 /\ built => Len(gets) = Len(params)
    ]_vars

\* get('A') on the diamond returned after four constructions (K, L, R, A)
\* with K's parameter C resolved once
C16_Witness ==
  /\ last.op = "get" /\ last.arg = <<<<"A">>>> /\ last.k = "return"
  /\ Cardinality({k \in 1..Len(last.log) : last.log[k].e = "new"}) = 4
  /\ Cardinality({k \in 1..Len(last.log) : last.log[k].e = "get" /\ last.log[k].name = <<"C">>}) = 1
  /\ Cardinality({k \in 1..Len(last.log) : last.log[k].e = "get" /\ last.log[k].name = <<"K">>}) = 2

\* C17: a get of a registered class, one of whose dependencies is neither
\* registered nor installed under any candidate name, raises the module
\* provider's not-found error for that dependency, constructs no instance of
\* the class, leaves it without cached instance and leaves the registered
\* names as they were; nothing of the failure is kept: whenever every
\* dependency can be resolved, so also after the missing one has been
\* registered, the get returns an instance.
C17_FailureCachesNothing ==
  [][(/\ last'.op = "get"
      /\ ParamsOf(last'.arg[1]) # {}
      /\ Acyclic(last'.arg[1])) =>
       LET A == last'.arg[1]
           missing == {q \in ReachPlus(A) : Missing(q)}
       IN IF missing # {}
            THEN /\ last'.k = "throw"
                 /\ \E q \in missing :
                      last'.v = Err("Container could not find NPM module: ", q)
                 /\ NewIndices(last'.log, container[A].file) = {}
                 /\ container'[A].instance = Undef
                 /\ DOMAIN container' = DOMAIN container
                 /\ \A n \in DOMAIN container : KindsOf(container'[n]) = KindsOf(container[n])
          ELSE /\ last'.k = "return"
               /\ last'.v.t = "object"
               /\ NewIndices(last'.log, container[A].file) # {}
    ]_vars

\* get('D') failed because its parameter B is neither registered nor a
\* module; the registry holds D alone, without instance
C17_Witness ==
  /\ last.op = "get" /\ last.arg = <<<<"D">>>>
  /\ last.k = "throw"
  /\ last.v = Err("Container could not find NPM module: ", <<"B">>)
  /\ <<"D">> \in DOMAIN container /\ container[<<"D">>].instance = Undef
  /\ <<"B">> \notin DOMAIN container

\* C18: every value getClass returns is the constructible of a registered
\* class definition: the name is registered as a class and the value is the
\* class of a scanned file; for a name registered as a factory, a constant or
\* a function getClass raises an error.
C18_GetClassClassesOnly ==
  last.op = "getClass" =>
    LET n == last.arg[1]
    IN /\ last.k = "return" =>
            /\ n \in DOMAIN container
            /\ container[n].isClass = Bool(TRUE)
            /\ last.v = container[n].file
            /\ \E f \in AllFiles : f.isCtor /\ f.v = last.v
       /\ (n \in DOMAIN container /\ container[n].isClass # Bool(TRUE)) => last.k = "throw"

\* what the transform makes of the character at position i: an upper-case
\* letter or digit is lowered, after a '-' when it opens a run; any other
\* character stays
DashPiece(s, i) ==
  IF s[i] \notin UpperOrDigit THEN <<s[i]>>
  ELSE IF i = 1 \/ s[i - 1] \notin UpperOrDigit THEN <<"-", toLowerCaseChar(s[i])>>
  ELSE <<toLowerCaseChar(s[i])>>
RECURSIVE DashPieces(_, _)
DashPieces(s, i) == IF i > Len(s) THEN <<>> ELSE DashPiece(s, i) \o DashPieces(s, i + 1)
Plain(s) == \A i \in 1..Len(s) : s[i] \notin UpperOrDigit

\* C19: kebabCase replaces each maximal run of upper-case letters and digits
\* by '-' and the lowered run and keeps every other character
\* (appleOrange2 -> apple-orange-2, socketIo -> socket-io); a name without
\* upper-case letter and digit comes back unchanged, and the lookup of such a
\* name asks the module provider three times for the same name; the result
\* for a name that starts with an upper-case letter or a digit starts with '-'.
C19_DashCase ==
  /\ last.op = "kebabCase" =>
       LET s == last.arg[1]
           r == last.v.s
       IN /\ r = DashPieces(s, 1)
          /\ Plain(s) => (r = s /\ DotName(r) = s)
          /\ s[1] \in UpperOrDigit => r[1] = "-"
          /\ s = AppleOrange2 =>
               r = <<"a", "p", "p", "l", "e", "-", "o", "r", "a", "n", "g", "e", "-", "2">>
          /\ s = SocketIo => r = <<"s", "o", "c", "k", "e", "t", "-", "i", "o">>
  /\ (last.op = "get" /\ Plain(last.arg[1])) =>
       /\ Len(last.log) = 4
       /\ \A j \in 2..4 : last.log[j] = [e |-> "exists", name |-> last.arg[1]]
  /\ (last.op = "get" /\ ~Plain(last.arg[1])) =>
       /\ Len(last.log) >= 3
       /\ last.log[3] = [e |-> "exists", name |-> DashPieces(last.arg[1], 1)]

\* kebabCase was applied to a name with a run of two upper-case letters
\* between lower-case letters
C19_Witness ==
  /\ last.op = "kebabCase"
  /\ last.arg = <<<<"O", "I", "a">>>>
  /\ last.v = Str(<<"-", "o", "i", "a">>)

====
